---- MODULE Spec2Model ----
(***************************************************************************)
(* A model of the syllabus summarizer: the POST handler of                 *)
(* src/app/api/summarize/route.ts (the topic research-and-summarization    *)
(* pipeline and the frames it pushes on its output stream) and the read    *)
(* loop of handleSubmit in src/app/page.tsx that decodes those frames.     *)
(*                                                                         *)
(* A text is a sequence of atoms.  An atom is a piece of text the model    *)
(* never looks into: one character of input ("a", " ", "\n") or one        *)
(* literal of the source ("Splitting syllabus into topics...").  The       *)
(* frame markers are two atoms each, so that a transport chunk can end     *)
(* inside a marker.                                                        *)
(***************************************************************************)
EXTENDS Integers, Sequences, FiniteSets, TLC

\* ------------------------------------------------------------------ bounds

\* Longest syllabus text, in atoms.
MaxSyllabusLen == 3
\* Longest result list of one search call.
MaxResults == 2
\* Most chunks of one response that the transport ends inside a frame.
MaxCuts == 1
\* Longest syllabus text the page submits, in atoms.
MaxPageSyllabusLen == 1
\* The pages of the long ranking, and how many of them are half pages.
MaxDeepUrls == 14
ShortPages == 2

\* ------------------------------------------------------- program constants

WordTarget == 10000
MaxTries == 10
NumModels == 2
\* fetchWebContent cuts its text at 2000 characters: at most 1000 words.
MaxFragmentWords == 1000

\* ------------------------------------------------------------------- texts

Whitespace == {" ", "\n", "\r"}

InputChars == {"a", " ", "\n"}

Range(s) == {s[k] : k \in 1..Len(s)}

RECURSIVE TrimStart(_)
TrimStart(s) ==
  IF s # <<>> /\ Head(s) \in Whitespace THEN TrimStart(Tail(s)) ELSE s

RECURSIVE TrimEnd(_)
TrimEnd(s) ==
  IF s # <<>> /\ s[Len(s)] \in Whitespace
  THEN TrimEnd(SubSeq(s, 1, Len(s) - 1))
  ELSE s

\* String.prototype.trim
Trim(s) == TrimEnd(TrimStart(s))

RECURSIVE DropRun(_, _)
DropRun(s, seps) ==
  IF s # <<>> /\ Head(s) \in seps THEN DropRun(Tail(s), seps) ELSE s

\* String.prototype.split with a pattern sep+: the pieces between maximal
\* runs of separator atoms.  A text without separator is one piece, and a
\* leading or trailing run leaves an empty piece.
RECURSIVE SplitRuns(_, _, _)
SplitRuns(s, seps, cur) ==
  IF s = <<>> THEN <<cur>>
  ELSE IF Head(s) \in seps
       THEN <<cur>> \o SplitRuns(DropRun(s, seps), seps, <<>>)
       ELSE SplitRuns(Tail(s), seps, Append(cur, Head(s)))

RECURSIVE MapTrim(_)
MapTrim(ss) ==
  IF ss = <<>> THEN <<>> ELSE <<Trim(Head(ss))>> \o MapTrim(Tail(ss))

\* Array.prototype.filter(Boolean) on texts: the empty text is falsy.
RECURSIVE FilterNonEmpty(_)
FilterNonEmpty(ss) ==
  IF ss = <<>> THEN <<>>
  ELSE IF Head(ss) = <<>> THEN FilterNonEmpty(Tail(ss))
       ELSE <<Head(ss)>> \o FilterNonEmpty(Tail(ss))

\* A faulty variant of extractTopics: the lines are not trimmed before the filter.
extractTopicsNoTrim(text) == FilterNonEmpty(SplitRuns(text, {"\n"}, <<>>))

\* syllabus.split(/\n+/).map(t => t.trim()).filter(Boolean)
extractTopics(text) == FilterNonEmpty(MapTrim(SplitRuns(text, {"\n"}, <<>>)))

RECURSIVE Concat(_)
Concat(ss) == IF ss = <<>> THEN <<>> ELSE Head(ss) \o Concat(Tail(ss))

RECURSIVE JoinWith(_, _)
JoinWith(ss, sep) ==
  IF ss = <<>> THEN <<>>
  ELSE IF Len(ss) = 1 THEN Head(ss)
       ELSE Head(ss) \o sep \o JoinWith(Tail(ss), sep)

\* ------------------------------------------------------------ wire format

EscapeAtom(c) ==
  IF c = "\n" THEN "\\n"
  ELSE IF c = "\r" THEN "\\r"
  ELSE IF c = "\"" THEN "\\\""
  ELSE c

\* JSON.stringify of a string
JsonString(t) == <<"\"">> \o [k \in 1..Len(t) |-> EscapeAtom(t[k])] \o <<"\"">>

\* JSON.stringify of an array of URL strings
JsonUrls(links) ==
  <<"[">> \o JoinWith([k \in 1..Len(links) |-> JsonString(<<links[k]>>)], <<",">>)
         \o <<"]">>

\* The text of the accumulated content: per fragment a blank and the
\* words fetched from its URL, as one atom.
ContentText(content) ==
  Concat([k \in 1..Len(content) |-> <<" ", "words of " \o content[k].url>>])

\* JSON.stringify of one element of summaryArray: the keys in the order
\* topic, translated, summary, sources.  JSON.stringify writes every own
\* property of the object: a property content, when there is one, too.
JsonTopic(r) ==
  <<"{\"topic\":">> \o JsonString(r.topic)
    \o <<",\"translated\":">> \o JsonString(r.translated)
    \o <<",\"summary\":">> \o JsonString(r.summary)
    \o <<",\"sources\":">> \o JsonUrls(r.sources)
    \o (IF "content" \in DOMAIN r
        THEN <<",\"content\":">> \o JsonString(ContentText(r.content))
        ELSE <<>>)
    \o <<"}">>

\* A faulty variant of summaryArray: the records are serialized as they are.
summaryArrayKeepsContent(results) == results

\* topicResults.map(({topic, translated, sources, content, summary}) =>
\*   ({topic, translated, summary, sources}))
summaryArray(results) ==
  [k \in 1..Len(results) |->
     [topic |-> results[k].topic, translated |-> results[k].translated,
      summary |-> results[k].summary, sources |-> results[k].sources]]

\* JSON.stringify(summaryArray)
JSONstringify(arr) ==
  <<"[">> \o JoinWith([k \in 1..Len(arr) |-> JsonTopic(arr[k])], <<",">>) \o <<"]">>

STATUS == <<"STATUS", ":">>
SUMMARY == <<"SUMMARY", ":">>
ERROR == <<"ERROR", ":">>

StatusFrame(status) == STATUS \o status \o <<"\n">>
SummaryFrame(payload) == SUMMARY \o payload
ErrorFrame == ERROR \o <<"An error occurred while processing your request.">>
NoTopicsFrame == SUMMARY \o <<"No topics found.">>

SplittingStatus == <<"Splitting syllabus into topics...">>
TranslatingStatus == <<"Translating topics to English...">>
TranslatingTopicStatus(k, n) ==
  <<"Translating topic " \o ToString(k) \o " of " \o ToString(n)>>
ExtractedStatus ==
  <<"Extracted and translated topics. Scraping the web for each topic...">>
ScrapingStatus(k, n, translated) ==
  <<"Scraping for topic " \o ToString(k) \o " of " \o ToString(n) \o ": ">>
    \o translated
SummarizingStatus(k, n) ==
  <<"Summarizing content for topic " \o ToString(k) \o " of " \o ToString(n) \o "...">>
FinalStatus == <<"Generating final summary document...">>

NoSummary == <<"No summary generated.">>

\* ---------------------------------------------------------------- content

\* allContent is '' or ' ' + c1 + ' ' + c2 + ..., every ci a trimmed text
\* of wi >= 1 words with single blanks: the model keeps, per fragment, the
\* URL it came from and wi.
RECURSIVE TotalWords(_)
TotalWords(content) ==
  IF content = <<>> THEN 0 ELSE Head(content).words + TotalWords(Tail(content))

\* allContent.split(/\s+/).length: the text before the leading blank is an
\* (empty) piece of its own, and '' splits into one empty piece.
SplitLength(content) == 1 + TotalWords(content)

RECURSIVE TakeWords(_, _)
TakeWords(content, k) ==
  IF content = <<>> \/ k <= 0 THEN <<>>
  ELSE IF Head(content).words <= k
       THEN <<Head(content)>> \o TakeWords(Tail(content), k - Head(content).words)
       ELSE <<[url |-> Head(content).url, words |-> k]>>

\* A faulty variant of LimitContent: the content is not cut.
LimitContentNoCut(content) == content

\* contentWords.slice(0, 10000).join(' '): the empty first piece is one of
\* the 10000 pieces kept.
LimitContent(content) ==
  IF SplitLength(content) > WordTarget
  THEN TakeWords(content, WordTarget - 1)
  ELSE content

\* A faulty variant of LoopCond: the tries are not bounded.
LoopCondNoTries(content, t) == SplitLength(content) < WordTarget

\* the while condition of the collection loop
LoopCond(content, t) == SplitLength(content) < WordTarget /\ t < MaxTries

\* -------------------------------------------------------------- the world

Urls == {"u1", "u2"}

RECURSIVE SeqsUpTo(_, _)
SeqsUpTo(S, n) ==
  IF n = 0 THEN {<<>>}
  ELSE LET shorter == SeqsUpTo(S, n - 1)
       IN shorter \cup {Append(s, x) : s \in {t \in shorter : Len(t) = n - 1}, x \in S}

\* what a search call can return: any list of result links.
UrlLists == SeqsUpTo(Urls, MaxResults)

\* the `response` field of the generation backend's reply; the empty text
\* also stands for a reply without a string `response`.
GenResponses == {<<>>, <<" ">>, <<" ", "e", "\n", "f", " ">>}

\* the same for a summarize call: the reply with text ends in a Sources
\* section, as the prompt of summarizeWithOllama suggests.
SummaryResponses ==
  {<<>>, <<" ">>, <<" ", "e", "\n", "\n", "Sources:", "\n", "u1", " ">>}

\* the number of words of the text fetchWebContent returns; 0 is ''.
ExtractOutcomes == {0, MaxFragmentWords}

Syllabi == SeqsUpTo(InputChars, MaxSyllabusLen)

\* A world with a long ranking of pages for the one query: the first page
\* holds 999 words, the next ShortPages pages half of the 1000 words that
\* the 2000 characters fetchWebContent keeps can hold, the others all
\* 1000, and every page can be fetched.  A search call lists the top of
\* the ranking, to a depth that can differ from call to call.
DeepUrl(k) == "d" \o ToString(k)
DeepWords(u) ==
  LET k == CHOOSE n \in 1..MaxDeepUrls : DeepUrl(n) = u
  IN IF k = 1 THEN MaxFragmentWords - 1
     ELSE IF k <= ShortPages + 1 THEN MaxFragmentWords \div 2
     ELSE MaxFragmentWords
DeepUrlLists == {[k \in 1..n |-> DeepUrl(k)] : n \in 0..MaxDeepUrls}

\* ------------------------------------------------------------------ state

VARIABLES
  isStatusStream,   \* req.headers.get('x-status-stream') === 'true'
  fieldKind,        \* formData.get('syllabus'): "absent", "file" or "string"
  syllabus,         \* its text when it is a string
  pc,               \* where POST and its work unit stand
  clientResponse,   \* what POST returned: "none", "error400", "stream"
  workResult,       \* what the work unit returned: <<>> or <<envelope>>
  stream,           \* the frames pushed on the Readable, in order
  closed,           \* stream.push(null) happened
  lastStatus,
  topics,
  translatedTopics,
  i,                \* the topic at hand, 1-based
  m,                \* the model at hand in a generation call, 1-based; else 0
  allContent,
  allLinks,
  tries,
  newContentAdded,
  urls,             \* the result list of the last search call of the loop
  j,                \* the position in urls; past its end when the pass is over
  topicResults,
  raisedBy,         \* the call whose exception reached the catch handler
  translateLog,     \* the translate calls made: argument and value returned
  collaboratorCalled, \* a search, extraction or generation call was issued
  logRecords,       \* the records logToFile appended for the submission
  searchCalls,      \* the searchWeb calls issued for the topic at hand
  fetchCalls,       \* per URL, the fetchWebContent calls of the run at hand
  passStart,        \* the length of allLinks when the latest search call was issued
  wordsCollected,   \* the words appended to allContent in the run at hand
  genTrace,         \* the generation call a reply has just come in for, and its replies
  delays,           \* the delay(ms) steps the work unit has taken
  query,            \* the argument of the searchWeb call awaited, else empty
  rpos,             \* handleSubmit: the atoms of the response body read so far
  cuts,             \* the chunks so far that ended inside a frame
  clientStatus,     \* handleSubmit: lastStatus
  summaryText,      \* handleSubmit: summaryText
  clientPhase,      \* "reading", or how handleSubmit ended: "summary", "error"
  summary           \* the state set by setSummary

vars ==
  <<isStatusStream, fieldKind, syllabus, pc, clientResponse, workResult, stream,
    closed, lastStatus, topics, translatedTopics, i, m, allContent, allLinks,
    tries, newContentAdded, urls, j, topicResults, raisedBy, translateLog,
    collaboratorCalled, logRecords, searchCalls, fetchCalls, passStart,
    wordsCollected, genTrace, delays, query,
    rpos, cuts, clientStatus, summaryText, clientPhase, summary>>

clientVars == <<rpos, cuts, clientStatus, summaryText, clientPhase, summary>>
serverVars ==
  <<isStatusStream, fieldKind, syllabus, pc, clientResponse, workResult, stream,
    closed, lastStatus, topics, translatedTopics, i, m, allContent, allLinks,
    tries, newContentAdded, urls, j, topicResults, raisedBy, translateLog,
    collaboratorCalled, logRecords, searchCalls, fetchCalls, passStart,
    wordsCollected, genTrace, delays, query>>
\* what no step of the server changes: the request and the client's state
requestAndClient == <<isStatusStream, fieldKind, syllabus, clientVars>>
loopVars == <<allContent, allLinks, tries, newContentAdded, urls, j>>

\* The state when a request has arrived, but for the request itself.
Fresh ==
  /\ rpos = 0
  /\ cuts = 0
  /\ clientStatus = <<>>
  /\ summaryText = <<>>
  /\ clientPhase = "reading"
  /\ summary = <<>>
  /\ pc = "request"
  /\ clientResponse = "none"
  /\ workResult = <<>>
  /\ stream = <<>>
  /\ closed = FALSE
  /\ lastStatus = <<>>
  /\ topics = <<>>
  /\ translatedTopics = <<>>
  /\ i = 0
  /\ m = 0
  /\ allContent = <<>>
  /\ allLinks = <<>>
  /\ tries = 0
  /\ newContentAdded = FALSE
  /\ urls = <<>>
  /\ j = 0
  /\ topicResults = <<>>
  /\ raisedBy = "none"
  /\ translateLog = <<>>
  /\ collaboratorCalled = FALSE
  /\ logRecords = 0
  /\ searchCalls = 0
  /\ fetchCalls = <<>>
  /\ passStart = 0
  /\ wordsCollected = 0
  /\ genTrace = [call |-> "none", replies |-> <<>>]
  /\ delays = 0
  /\ query = <<>>

\* Any request: with or without the header, with or without the field.
Init ==
  /\ isStatusStream \in BOOLEAN
  /\ fieldKind \in {"absent", "file", "string"}
  /\ syllabus \in (IF fieldKind = "string" THEN Syllabi ELSE {<<>>})
  /\ Fresh

\* ------------------------------------------------- what a step leaves behind

\* The positions of the work unit at which it awaits a collaborator: a
\* generation call (translate, summarize), searchWeb or fetchWebContent.
Calls == {"translate", "search", "fetch", "summarize"}

\* one more call for URL u
CountCall(calls, u) ==
  IF u \in DOMAIN calls THEN [calls EXCEPT ![u] = @ + 1] ELSE calls @@ (u :> 1)

\* The log records the step appends when it leaves the loop: logToFile of
\* 'Summarizing topic: ...' before the summarize call.
LogsOnExit == IF pc' = "summarize" THEN 1 ELSE 0

\* no reply has just come in
NoCall == [call |-> "none", replies |-> <<>>]

\* Model m of a generation call has replied r: the first reply of a call
\* starts its trace.
Replied(call, r) ==
  IF m = 1 THEN [call |-> call, replies |-> <<r>>]
  ELSE [genTrace EXCEPT !.replies = Append(@, r)]

\* A faulty variant of searchArg: the topic as submitted is searched for.
searchArgUntranslated(ts, tts, k) == ts[k]

\* const translated = translatedTopics[i]; ... searchWeb(translated): the
\* query of a search call for topic k of ts, with translations tts.
searchArg(ts, tts, k) == tts[k]

\* The calls and log records of a step that appends `logged` records and
\* `words` words of content and ends at pc': a step that ends at an await
\* has issued that call.  The search calls are counted per topic, the fetch
\* calls and the words per collection run.  The handler calls delay(ms)
\* nowhere.
Observed(logged, words) ==
  /\ collaboratorCalled' = (collaboratorCalled \/ pc' \in Calls)
  /\ logRecords' = logRecords + logged
  /\ searchCalls' =
       IF pc' = "search"
       THEN (IF pc \in {"search", "fetch"} THEN searchCalls + 1 ELSE 1)
       ELSE IF pc' \in {"fetch", "summarize"} THEN searchCalls ELSE 0
  /\ fetchCalls' =
       IF pc' = "fetch" THEN CountCall(fetchCalls, urls'[j'])
       ELSE IF pc' = "search" THEN fetchCalls ELSE <<>>
  /\ passStart' =
       IF pc' = "search" THEN Len(allLinks')
       ELSE IF pc' \in {"fetch", "summarize"} THEN passStart ELSE 0
  /\ wordsCollected' =
       IF pc' = "search" /\ pc \notin {"search", "fetch"} THEN 0
       ELSE IF pc' \in {"search", "fetch", "summarize"} THEN wordsCollected + words
       ELSE 0
  /\ delays' = delays
  /\ query' = IF pc' = "search" THEN searchArg(topics', translatedTopics', i')
              ELSE <<>>

\* a step that is not the reply of a generation backend
Traces(logged) ==
  /\ Observed(logged, 0)
  /\ genTrace' = NoCall

\* ------------------------------------------------------------- the stream

Out == [stream |-> stream, lastStatus |-> lastStatus]

\* pushStatus: a status equal to the last one pushed is dropped.
pushStatus(st, status) ==
  IF status # st.lastStatus
  THEN [stream |-> Append(st.stream, StatusFrame(status)), lastStatus |-> status]
  ELSE st

SetOut(st) == stream' = st.stream /\ lastStatus' = st.lastStatus

\* A faulty variant of Raise: the records built so far are flushed first.
RaiseWithPartial(by) ==
  /\ stream' = stream \o <<SummaryFrame(JSONstringify(summaryArray(topicResults))),
                            ErrorFrame>>
  /\ closed' = TRUE
  /\ pc' = "done"
  /\ raisedBy' = by
  /\ UNCHANGED <<requestAndClient, clientResponse, workResult, lastStatus, topics,
                 translatedTopics, i, m, loopVars, topicResults, translateLog>>
  /\ Traces(0)

\* The catch handler of the work unit: an exception of any awaited call
\* ends the stream with an ERROR frame.
Raise(by) ==
  /\ stream' = Append(stream, ErrorFrame)
  /\ closed' = TRUE
  /\ pc' = "done"
  /\ raisedBy' = by
  /\ UNCHANGED <<requestAndClient, clientResponse, workResult, lastStatus, topics,
                 translatedTopics, i, m, loopVars, topicResults, translateLog>>
  /\ Traces(0)

\* ------------------------------------------------------------------- POST

\* A faulty variant of Rejects: the typeof test is missing.
RejectsFalsy == fieldKind = "absent" \/ (fieldKind = "string" /\ syllabus = <<>>)

\* if (!syllabus || typeof syllabus !== 'string') return 400
Rejects == fieldKind # "string" \/ syllabus = <<>>

POST_Reject ==
  /\ pc = "request"
  /\ Rejects
  /\ pc' = "rejected"
  /\ clientResponse' = "error400"
  /\ UNCHANGED <<requestAndClient, workResult, stream, closed, lastStatus, topics,
                 translatedTopics, i, m, loopVars, topicResults, raisedBy,
                 translateLog>>
  /\ Traces(0)

\* The request is taken: the stream is created, the work unit starts, and
\* POST returns the stream as the response whatever the header says.
POST_Accept ==
  /\ pc = "request"
  /\ ~Rejects
  /\ pc' = "split"
  /\ clientResponse' = "stream"
  /\ UNCHANGED <<requestAndClient, workResult, stream, closed, lastStatus, topics,
                 translatedTopics, i, m, loopVars, topicResults, raisedBy,
                 translateLog>>
  \* logToFile('Received new request. ...')
  /\ Traces(1)

\* A faulty variant of Split: the branch for no topics does not return.
SplitFallsThrough ==
  /\ pc = "split"
  /\ LET ts == extractTopics(syllabus)
         s1 == pushStatus(Out, SplittingStatus)
         s2 == pushStatus(s1, TranslatingStatus)
         s3 == pushStatus(s2, ExtractedStatus)
         s4 == pushStatus(s3, FinalStatus)
     IN /\ topics' = ts
        /\ IF ts = <<>>
           THEN /\ stream' = Append(Append(s1.stream, NoTopicsFrame)
                                      \o SubSeq(s4.stream, Len(s1.stream) + 1, Len(s4.stream)),
                                    SummaryFrame(JSONstringify(<<>>)))
                /\ lastStatus' = s4.lastStatus
                /\ closed' = TRUE
                /\ pc' = "done"
                /\ UNCHANGED <<i, m>>
           ELSE /\ SetOut(pushStatus(s2, TranslatingTopicStatus(1, Len(ts))))
                /\ closed' = closed
                /\ i' = 1
                /\ m' = 1
                /\ pc' = "translate"
  /\ UNCHANGED <<requestAndClient, clientResponse, workResult, translatedTopics,
                 loopVars, topicResults, raisedBy, translateLog>>
  /\ Traces(0)

\* The work unit up to its first await: the split, the short cut for no
\* topics, and the first translate call.
Split ==
  /\ pc = "split"
  /\ LET ts == extractTopics(syllabus)
         s1 == pushStatus(Out, SplittingStatus)
         s2 == pushStatus(s1, TranslatingStatus)
     IN /\ topics' = ts
        /\ IF ts = <<>>
           THEN /\ stream' = Append(s1.stream, NoTopicsFrame)
                /\ lastStatus' = s1.lastStatus
                /\ closed' = TRUE
                /\ pc' = "done"
                /\ UNCHANGED <<i, m>>
           ELSE /\ SetOut(pushStatus(s2, TranslatingTopicStatus(1, Len(ts))))
                /\ closed' = closed
                /\ i' = 1
                /\ m' = 1
                /\ pc' = "translate"
  /\ UNCHANGED <<requestAndClient, clientResponse, workResult, translatedTopics,
                 loopVars, topicResults, raisedBy, translateLog>>
  /\ Traces(0)

\* --------------------------------------------------------- the collector

\* A faulty variant of NextUrl: the includes test is missing, every URL is fetched.
NextUrlNoCheck(links, us, k) == k

\* for (const url of urls) if (!allLinks.includes(url)): the next position
\* at or after k whose URL is fetched.
RECURSIVE NextUrl(_, _, _)
NextUrl(links, us, k) ==
  IF k > Len(us) THEN k
  ELSE IF us[k] \notin Range(links) THEN k
       ELSE NextUrl(links, us, k + 1)

\* A faulty variant of ExitLoop: the summarizing status is not pushed.
ExitLoopSilent(st, k, content, links, t) ==
  /\ pc' = "summarize"
  /\ m' = 1
  /\ urls' = <<>>
  /\ j' = 0
  /\ newContentAdded' = FALSE
  /\ allContent' = LimitContent(content)
  /\ allLinks' = links
  /\ tries' = t
  /\ SetOut(st)

\* The loop is left, and with it the scope of urls and newContentAdded: the
\* content is cut to the cap and the summarize call for topic k is made.
ExitLoop(st, k, content, links, t) ==
  /\ pc' = "summarize"
  /\ m' = 1
  /\ urls' = <<>>
  /\ j' = 0
  /\ newContentAdded' = FALSE
  /\ allContent' = LimitContent(content)
  /\ allLinks' = links
  /\ tries' = t
  /\ SetOut(pushStatus(st, SummarizingStatus(k, Len(topics))))

\* The while condition is evaluated: another search call (us and added
\* are the result list and the flag of the pass that ended, kept until the
\* call returns), or the exit.
EnterLoop(st, k, content, links, t, us, added) ==
  IF LoopCond(content, t)
  THEN /\ pc' = "search"
       /\ m' = 0
       /\ urls' = us
       /\ j' = Len(us) + 1
       /\ newContentAdded' = added
       /\ allContent' = content
       /\ allLinks' = links
       /\ tries' = t
       /\ SetOut(st)
  ELSE ExitLoop(st, k, content, links, t)

\* The collection of topic k starts.
StartTopic(st, k, translated) ==
  /\ i' = k
  /\ EnterLoop(pushStatus(st, ScrapingStatus(k, Len(topics), translated)),
               k, <<>>, <<>>, 0, <<>>, FALSE)

\* A faulty variant of ContinuePass: the stagnation break is missing.
ContinuePassNoBreak(content, links, added, us, k) ==
  LET nk == NextUrl(links, us, k)
  IN /\ i' = i
     /\ IF nk <= Len(us)
        THEN /\ pc' = "fetch"
             /\ urls' = us
             /\ j' = nk
             /\ newContentAdded' = added
             /\ allContent' = content
             /\ allLinks' = links
             /\ UNCHANGED <<tries, m, stream, lastStatus>>
        ELSE EnterLoop(Out, i, content, links, tries + 1, us, added)

\* The pass goes on from position k of the result list us until its next
\* await: a fetch of the next URL not in allLinks, or the end of the pass
\* (tries++, the stagnation break, the while condition).
ContinuePass(content, links, added, us, k) ==
  LET nk == NextUrl(links, us, k)
  IN /\ i' = i
     /\ IF nk <= Len(us)
        THEN /\ pc' = "fetch"
             /\ urls' = us
             /\ j' = nk
             /\ newContentAdded' = added
             /\ allContent' = content
             /\ allLinks' = links
             /\ UNCHANGED <<tries, m, stream, lastStatus>>
        ELSE IF added
             THEN EnterLoop(Out, i, content, links, tries + 1, us, added)
             ELSE ExitLoop(Out, i, content, links, tries + 1)

\* --------------------------------------------------- the generation calls

\* fetch(OLLAMA_API_URL) rejects, or response.json() throws: neither
\* translateTopicWithOllama nor summarizeWithOllama catches it.
TranslateFails ==
  /\ pc = "translate"
  /\ Raise("generate")

\* translateTopicWithOllama returns v for topic i: the next translate call,
\* or after the last topic the collection of the first one.
TranslateReturn(v) ==
  /\ translatedTopics' = Append(translatedTopics, v)
  /\ translateLog' = Append(translateLog, [arg |-> topics[i], ret |-> v])
  /\ UNCHANGED <<topics, topicResults, closed, workResult, raisedBy>>
  /\ IF i < Len(topics)
     THEN /\ pc' = "translate"
          /\ i' = i + 1
          /\ m' = 1
          /\ SetOut(pushStatus(Out, TranslatingTopicStatus(i + 1, Len(topics))))
          /\ UNCHANGED loopVars
     ELSE StartTopic(pushStatus(Out, ExtractedStatus), 1, translatedTopics'[1])

\* A faulty variant of translateAttempt: the response is not tested for emptiness.
translateAttemptUnchecked(r) ==
  /\ TranslateReturn(Trim(r))

\* One model's reply r in translateTopicWithOllama: a reply that is not
\* empty after trimming is returned trimmed; else the next model is asked,
\* and after the last one the topic itself is returned.
translateAttempt(r) ==
  /\ IF Trim(r) # <<>>
     THEN TranslateReturn(Trim(r))
     ELSE IF m < NumModels
          THEN /\ m' = m + 1
               /\ UNCHANGED <<pc, stream, closed, lastStatus, topics, translatedTopics,
                              i, loopVars, topicResults, workResult, raisedBy,
                              translateLog>>
          ELSE TranslateReturn(topics[i])

TranslateResponds ==
  /\ pc = "translate"
  /\ \E r \in GenResponses :
       /\ translateAttempt(r)
       /\ genTrace' = Replied("translate", r)
  /\ UNCHANGED <<requestAndClient, clientResponse>>
  /\ Observed(0, 0)

SummarizeFails ==
  /\ pc = "summarize"
  /\ Raise("generate")

\* A faulty variant of SummarizeReturn: a topic without sources leaves no
\* record.
SummarizeReturnSkipsEmpty(v) ==
  /\ topicResults' =
       IF allLinks = <<>> THEN topicResults
       ELSE Append(topicResults,
              [topic |-> topics[i], translated |-> translatedTopics[i],
               sources |-> allLinks, content |-> allContent, summary |-> v])
  /\ UNCHANGED <<topics, translatedTopics, raisedBy, translateLog>>
  /\ IF i < Len(topics)
     THEN /\ StartTopic(Out, i + 1, translatedTopics[i + 1])
          /\ UNCHANGED <<closed, workResult>>
     ELSE LET st == pushStatus(Out, FinalStatus)
              finalSummary == JSONstringify(summaryArray(topicResults'))
          IN /\ pc' = "done"
             /\ lastStatus' = st.lastStatus
             /\ IF isStatusStream
                THEN /\ stream' = Append(st.stream, SummaryFrame(finalSummary))
                     /\ closed' = TRUE
                     /\ workResult' = workResult
                ELSE \* return NextResponse.json(...) inside the work unit
                     /\ stream' = st.stream
                     /\ closed' = closed
                     /\ workResult' = <<[summary |-> finalSummary]>>
             /\ m' = 0
             /\ UNCHANGED <<i, loopVars>>

\* summarizeWithOllama returns v for topic i: the record is appended, and
\* either the next topic is collected or the final document is built.
SummarizeReturn(v) ==
  /\ topicResults' = Append(topicResults,
         [topic |-> topics[i], translated |-> translatedTopics[i],
          sources |-> allLinks, content |-> allContent, summary |-> v])
  /\ UNCHANGED <<topics, translatedTopics, raisedBy, translateLog>>
  /\ IF i < Len(topics)
     THEN /\ StartTopic(Out, i + 1, translatedTopics[i + 1])
          /\ UNCHANGED <<closed, workResult>>
     ELSE LET st == pushStatus(Out, FinalStatus)
              finalSummary == JSONstringify(summaryArray(topicResults'))
          IN /\ pc' = "done"
             /\ lastStatus' = st.lastStatus
             /\ IF isStatusStream
                THEN /\ stream' = Append(st.stream, SummaryFrame(finalSummary))
                     /\ closed' = TRUE
                     /\ workResult' = workResult
                ELSE \* return NextResponse.json(...) inside the work unit
                     /\ stream' = st.stream
                     /\ closed' = closed
                     /\ workResult' = <<[summary |-> finalSummary]>>
             /\ m' = 0
             /\ UNCHANGED <<i, loopVars>>

\* A faulty variant of summarizeAttempt: the second model is asked whatever
\* the first one replied.
summarizeAttemptAsksAll(r) ==
  /\ IF m < NumModels
     THEN /\ m' = m + 1
          /\ UNCHANGED <<pc, stream, closed, lastStatus, topics, translatedTopics,
                         i, loopVars, topicResults, workResult, raisedBy,
                         translateLog>>
     ELSE IF Trim(r) # <<>> THEN SummarizeReturn(r)
          ELSE SummarizeReturn(NoSummary)

\* One model's reply r in summarizeWithOllama: a reply that is not empty
\* after trimming is returned as it is; else the next model is asked, and
\* after the last one the sentinel is returned.
summarizeAttempt(r) ==
  /\ IF Trim(r) # <<>>
     THEN SummarizeReturn(r)
     ELSE IF m < NumModels
          THEN /\ m' = m + 1
               /\ UNCHANGED <<pc, stream, closed, lastStatus, topics, translatedTopics,
                              i, loopVars, topicResults, workResult, raisedBy,
                              translateLog>>
          ELSE SummarizeReturn(NoSummary)

SummarizeResponds ==
  /\ pc = "summarize"
  /\ \E r \in SummaryResponses :
       /\ summarizeAttempt(r)
       /\ genTrace' = Replied("summarize", r)
  /\ UNCHANGED <<requestAndClient, clientResponse>>
  /\ Observed(0, 0)

\* ------------------------------------------------------- search and fetch

\* searchWeb returns []: the key file is unreadable, or the provider
\* answers with a status that is not ok.
SearchSoftFails ==
  /\ pc = "search"
  /\ ContinuePass(allContent, allLinks, FALSE, <<>>, 1)
  /\ UNCHANGED <<requestAndClient, clientResponse, workResult, closed, topics,
                 translatedTopics, topicResults, raisedBy, translateLog>>
  /\ Traces(LogsOnExit)

\* fetch(endpoint) rejects or res.json() throws in searchWeb: the await is
\* in no try block.
SearchRaises ==
  /\ pc = "search"
  /\ Raise("search")

\* searchWeb returns the links of organic_results.
SearchReturns ==
  /\ pc = "search"
  /\ \E us \in UrlLists : ContinuePass(allContent, allLinks, FALSE, us, 1)
  /\ UNCHANGED <<requestAndClient, clientResponse, workResult, closed, topics,
                 translatedTopics, topicResults, raisedBy,
                 translateLog>>
  /\ Traces(LogsOnExit)

\* if (content) { allContent += ' ' + content; allLinks.push(url); ...;
\* logToFile(`Fetched content from ${url}`) }
addContent(w) ==
  /\ ContinuePass(Append(allContent, [url |-> urls[j], words |-> w]),
                  Append(allLinks, urls[j]), TRUE, urls, j + 1)
  /\ Observed(1 + LogsOnExit, w)
  /\ genTrace' = NoCall

\* A faulty variant of skipUrl: the URL is recorded as a source although it
\* gave no text.
skipUrlRecordsLink ==
  /\ ContinuePass(allContent, Append(allLinks, urls[j]), newContentAdded, urls, j + 1)
  /\ Traces(LogsOnExit)

\* the URL gave no text: the pass goes on with the next one
skipUrl ==
  /\ ContinuePass(allContent, allLinks, newContentAdded, urls, j + 1)
  /\ Traces(LogsOnExit)

\* fetchWebContent(urls[j]) returns: '' on any failure, else a text.
FetchReturns ==
  /\ pc = "fetch"
  /\ UNCHANGED <<requestAndClient, clientResponse, workResult, closed, topics,
                 translatedTopics, topicResults, raisedBy, translateLog>>
  /\ \E w \in ExtractOutcomes :
       /\ IF w > 0 THEN addContent(w) ELSE skipUrl

\* searchWeb returns the top of the long ranking.
DeepSearchReturns ==
  /\ pc = "search"
  /\ \E us \in DeepUrlLists : ContinuePass(allContent, allLinks, FALSE, us, 1)
  /\ UNCHANGED <<requestAndClient, clientResponse, workResult, closed, topics,
                 translatedTopics, topicResults, raisedBy, translateLog>>
  /\ Traces(LogsOnExit)

\* fetchWebContent(urls[j]) returns the text of the page.
DeepFetchReturns ==
  /\ pc = "fetch"
  /\ UNCHANGED <<requestAndClient, clientResponse, workResult, closed, topics,
                 translatedTopics, topicResults, raisedBy, translateLog>>
  /\ addContent(DeepWords(urls[j]))

\* ------------------------------------------------------------ the client

\* The response body as the transport carries it: the frames on end.
Wire == Concat(stream)

\* The positions of Wire at which a frame ends.
FrameEnds == {Len(Concat(SubSeq(stream, 1, k))) : k \in 1..Len(stream)}

\* text.split(/\r?\n/): every line break is a separator of its own.
RECURSIVE splitLines(_, _)
splitLines(s, cur) ==
  IF s = <<>> THEN <<cur>>
  ELSE IF Head(s) = "\n" THEN <<cur>> \o splitLines(Tail(s), <<>>)
  ELSE IF Head(s) = "\r" /\ Len(s) > 1 /\ s[2] = "\n"
       THEN <<cur>> \o splitLines(Tail(Tail(s)), <<>>)
       ELSE splitLines(Tail(s), Append(cur, Head(s)))

startsWith(t, prefix) ==
  Len(t) >= Len(prefix) /\ \A k \in 1..Len(prefix) : t[k] = prefix[k]

\* chunk.replace(marker, '') of a chunk that starts with the marker
dropMarker(t, marker) == SubSeq(t, Len(marker) + 1, Len(t))

\* The body of the for loop of handleSubmit for one piece of a chunk.
decodePiece(st, piece) ==
  IF piece = <<>> THEN st
  ELSE IF startsWith(piece, STATUS)
       THEN [st EXCEPT !.lastStatus = Trim(dropMarker(piece, STATUS))]
  ELSE IF startsWith(piece, SUMMARY)
       THEN [st EXCEPT !.summaryText = @ \o dropMarker(piece, SUMMARY)]
  ELSE [st EXCEPT !.summaryText = @ \o piece]

RECURSIVE decodePieces(_, _)
decodePieces(st, pieces) ==
  IF pieces = <<>> THEN st
  ELSE decodePieces(decodePiece(st, Head(pieces)), Tail(pieces))

\* reader.read() yields a chunk: any non-empty stretch of the body not read
\* yet, ending at a frame end or (at most MaxCuts times) inside a frame.
ClientRead ==
  /\ clientResponse = "stream"
  /\ clientPhase = "reading"
  /\ LET wire == Wire
         ends == FrameEnds
     IN \E stop \in (rpos + 1)..Len(wire) :
       LET chunk == SubSeq(wire, rpos + 1, stop)
           st == decodePieces([lastStatus |-> clientStatus, summaryText |-> summaryText],
                              splitLines(chunk, <<>>))
       IN /\ stop \notin ends => cuts < MaxCuts
          /\ cuts' = IF stop \in ends THEN cuts ELSE cuts + 1
          /\ rpos' = stop
          /\ clientStatus' = st.lastStatus
          /\ summaryText' = st.summaryText
  /\ UNCHANGED <<serverVars, clientPhase, summary>>

\* reader.read() yields done: the body is read to its end and the stream
\* is closed.  setSummary(summaryText.trim()), or 'No summary received'.
ClientEnd ==
  /\ clientResponse = "stream"
  /\ clientPhase = "reading"
  /\ closed
  /\ rpos = Len(Wire)
  /\ IF Trim(summaryText) # <<>>
     THEN clientPhase' = "summary" /\ summary' = Trim(summaryText)
     ELSE clientPhase' = "error" /\ summary' = summary
  /\ UNCHANGED <<serverVars, rpos, cuts, clientStatus, summaryText>>

\* --------------------------------------------------------- SummaryDisplay

\* JSON.parse(summary) in SummaryDisplay.  The text the page has set is
\* made of the frames of the server: it parses to the array the server
\* serialized when it is that serialization, and any other text (the "No
\* topics found." signal, an error line, a damaged payload) takes the catch
\* branch and is shown as plain text (<<>> here).
JSONparse(text) ==
  IF topicResults # <<>> /\ text = JSONstringify(summaryArray(topicResults))
  THEN summaryArray(topicResults)
  ELSE <<>>

SourcesMarker == <<"\n", "\n", "Sources:">>

\* String.prototype.split with a pattern that matches one fixed text
RECURSIVE splitOn(_, _, _)
splitOn(s, marker, cur) ==
  IF s = <<>> THEN <<cur>>
  ELSE IF startsWith(s, marker)
       THEN <<cur>> \o splitOn(SubSeq(s, Len(marker) + 1, Len(s)), marker, <<>>)
       ELSE splitOn(Tail(s), marker, Append(cur, Head(s)))

\* The links the tab of a section lists below its summary: the lines of
\* the text after the first Sources marker of the summary, trimmed, the
\* empty ones dropped.  The sources property of the section is not read.
renderedLinks(section) ==
  LET parts == splitOn(section.summary, SourcesMarker, <<>>)
  IN IF section.summary = <<>> \/ Len(parts) < 2 THEN <<>>
     ELSE FilterNonEmpty(MapTrim(splitOn(parts[2], <<"\n">>, <<>>)))

\* ---------------------------------------------------------- specification

Next ==
  \/ POST_Reject
  \/ POST_Accept
  \/ Split
  \/ TranslateFails
  \/ TranslateResponds
  \/ SearchSoftFails
  \/ SearchRaises
  \/ SearchReturns
  \/ FetchReturns
  \/ SummarizeFails
  \/ SummarizeResponds

Spec == Init /\ [][Next]_vars

\* The server and the page together.  handleSubmit always sends the header,
\* and the form is not submitted with a blank text; the submission has one
\* topic, and the world is quiet: a search lists at most one link and a
\* topic takes at most two passes.
ClientSyllabi ==
  {s \in SeqsUpTo(InputChars, MaxPageSyllabusLen) : Len(extractTopics(s)) = 1}

ClientInit ==
  /\ isStatusStream = TRUE
  /\ fieldKind = "string"
  /\ syllabus \in ClientSyllabi
  /\ Fresh

QuietWorld == Len(urls) <= 1 /\ tries <= 2

ServerStep == Next /\ QuietWorld'

ClientNext ==
  \/ ServerStep
  \/ ClientRead
  \/ ClientEnd

ClientSpec == ClientInit /\ [][ClientNext]_vars

\* One topic in the world of the long ranking, where every call returns:
\* the collection run can take all its passes and pass the word target.
DeepInit ==
  /\ isStatusStream = TRUE
  /\ fieldKind = "string"
  /\ syllabus = <<"a">>
  /\ Fresh

DeepNext ==
  \/ POST_Accept
  \/ Split
  \/ TranslateResponds
  \/ DeepSearchReturns
  \/ DeepFetchReturns
  \/ SummarizeResponds

\* A call that is awaited returns: the work unit is not left waiting.
DeepSpec == DeepInit /\ [][DeepNext]_vars /\ WF_vars(DeepNext)

\* ------------------------------------------------------------ properties

Last(s) == s[Len(s)]

IsStatusFrame(f) == startsWith(f, STATUS)
IsResultFrame(f) == startsWith(f, SUMMARY)
IsErrorFrame(f) == startsWith(f, ERROR)
IsTerminalFrame(f) == IsResultFrame(f) \/ IsErrorFrame(f)

\* The stream carries a SubmissionResult: its last frame is a result frame
\* other than the "No topics found." signal.
SubmissionResultPushed ==
  stream # <<>> /\ IsResultFrame(Last(stream)) /\ Last(stream) # NoTopicsFrame

\* The lines of a text: every "\n" ends a line.
RECURSIVE LinesOf(_, _)
LinesOf(s, cur) ==
  IF s = <<>> THEN <<cur>>
  ELSE IF Head(s) = "\n" THEN <<cur>> \o LinesOf(Tail(s), <<>>)
       ELSE LinesOf(Tail(s), Append(cur, Head(s)))

\* The trimmed texts of the lines that are not blank, in input order.
RECURSIVE TrimmedNonBlank(_)
TrimmedNonBlank(ls) ==
  IF ls = <<>> THEN <<>>
  ELSE IF \A k \in 1..Len(Head(ls)) : Head(ls)[k] \in Whitespace
       THEN TrimmedNonBlank(Tail(ls))
       ELSE <<Trim(Head(ls))>> \o TrimmedNonBlank(Tail(ls))

NonBlankLines == TrimmedNonBlank(LinesOf(syllabus, <<>>))

\* The records the input calls for: one per non-blank line, with the value
\* the k-th translate call returned and what the pipeline found for it.
ExpectedEntries ==
  [k \in 1..Len(NonBlankLines) |->
     [topic |-> NonBlankLines[k], translated |-> translateLog[k].ret,
      summary |-> topicResults[k].summary, sources |-> topicResults[k].sources]]

EntriesMatchInput(payload) ==
  /\ Len(translateLog) = Len(NonBlankLines)
  /\ Len(topicResults) = Len(NonBlankLines)
  /\ \A k \in 1..Len(NonBlankLines) : translateLog[k].arg = NonBlankLines[k]
  /\ payload = JSONstringify(ExpectedEntries)

\* C1: a SubmissionResult the handler produces (the payload of the result
\* frame, or of the JSON envelope it builds) has exactly one entry per
\* non-blank line of the input, entry k carrying the trimmed k-th non-blank
\* line as topic and the value the translate call for that line returned
\* as translated.
C1_OneEntryPerNonBlankLine ==
  /\ SubmissionResultPushed =>
       EntriesMatchInput(SubSeq(Last(stream), Len(SUMMARY) + 1, Len(Last(stream))))
  /\ workResult # <<>> => EntriesMatchInput(workResult[1].summary)

C1_Witness ==
  /\ SubmissionResultPushed
  /\ Len(NonBlankLines) = 2
  /\ translateLog[1].ret # translateLog[2].ret

\* C2: the stream holds at most one terminal frame (result or error), it
\* is the last frame, every other frame is a status frame, and the stream
\* is closed only after its terminal frame.
C2_OneTerminalFrameLast ==
  /\ \A k \in 1..Len(stream) :
       IF k < Len(stream)
       THEN IsStatusFrame(stream[k]) /\ ~IsTerminalFrame(stream[k])
       ELSE IsStatusFrame(stream[k]) # IsTerminalFrame(stream[k])
  /\ closed => stream # <<>> /\ IsTerminalFrame(Last(stream))
  /\ (stream # <<>> /\ IsTerminalFrame(Last(stream))) => closed /\ pc = "done"

C2_Witness ==
  /\ closed
  /\ Len(stream) > 4
  /\ IsErrorFrame(Last(stream))
  /\ \A k \in 1..(Len(stream) - 1) : IsStatusFrame(stream[k])

\* C3: the response form follows the x-status-stream header: without it
\* the client gets the JSON envelope {summary: ...}, with it the stream
\* that ends with the result frame.
C3_ResponseFormFollowsHeader ==
  (pc = "done" /\ raisedBy = "none" /\ topics # <<>>) =>
     IF isStatusStream
     THEN clientResponse = "stream" /\ SubmissionResultPushed
     ELSE clientResponse = "json"

\* C4: a submission whose work unit has finished has emitted a terminal
\* frame and closed its stream.
C4_FinishedSubmissionTerminated ==
  pc = "done" => closed /\ stream # <<>> /\ IsTerminalFrame(Last(stream))

\* C6: every value translateTopicWithOllama returned is non-empty: the
\* trimmed non-empty reply of a model, or the topic it was called with;
\* every value summarizeWithOllama returned is non-empty: a reply that is
\* not empty after trimming, or the sentinel; so every topic record has a
\* non-empty translated and a non-empty summary.
C6_GenerationNeverEmpty ==
  /\ \A k \in 1..Len(translateLog) :
       /\ translateLog[k].ret # <<>>
       /\ \/ translateLog[k].ret = translateLog[k].arg
          \/ \E r \in GenResponses : Trim(r) # <<>> /\ translateLog[k].ret = Trim(r)
  /\ \A k \in 1..Len(topicResults) :
       /\ topicResults[k].translated # <<>>
       /\ topicResults[k].summary # <<>>
       /\ \/ topicResults[k].summary = NoSummary
          \/ \E r \in SummaryResponses : Trim(r) # <<>> /\ topicResults[k].summary = r

C6_Witness ==
  /\ SubmissionResultPushed
  /\ \E k \in 1..Len(topicResults) :
       /\ translateLog[k].ret = translateLog[k].arg
       /\ topicResults[k].summary = NoSummary

\* C7: a transport error of a generation call never reaches the caller of
\* translateTopicWithOllama or summarizeWithOllama.
C7_GenerationErrorNotRaised == raisedBy # "generate"

\* C8: whatever failed while a topic was processed, a streamed submission
\* with topics ends with a result frame holding one record per topic.
C8_FailureIsolatedPerTopic ==
  (pc = "done" /\ isStatusStream /\ topics # <<>>) =>
     /\ SubmissionResultPushed
     /\ Len(topicResults) = Len(topics)

\* C9: searchWeb never raises to the collector.
C9_SearchNeverRaises == raisedBy # "search"

NoDuplicates(s) == \A p, q \in 1..Len(s) : s[p] = s[q] => p = q

\* C10: at every point of a collection run the link list of the topic at
\* hand holds no URL twice, and neither does the sources list of any
\* topic record.
C10_SourcesDuplicateFree ==
  /\ NoDuplicates(allLinks)
  /\ \A k \in 1..Len(topicResults) : NoDuplicates(topicResults[k].sources)

C10_Witness ==
  /\ Len(urls) = 2
  /\ urls[1] = urls[2]
  /\ allLinks = <<urls[1]>>
  /\ j = 3
  /\ tries >= 1

\* Every status frame of the stream is one line: its only line break is
\* its terminator.
StatusFramesOneLine ==
  \A k \in 1..Len(stream) :
    IsStatusFrame(stream[k]) =>
      \A p \in 1..(Len(stream[k]) - 1) : stream[k][p] # "\n"

\* C5: when the stream ended in a result frame and the page has read it to
\* its end, the payload it reassembled is the serialized SubmissionResult
\* the server pushed, however the body was cut into chunks.  (Stated for
\* the streams whose status frames are one line each, so that a violation
\* is one of the chunking alone.)
C5_PayloadRoundTrip ==
  (clientPhase # "reading" /\ SubmissionResultPushed /\ StatusFramesOneLine) =>
     /\ clientPhase = "summary"
     /\ summary = dropMarker(Last(stream), SUMMARY)

\* C11: the content handed to the summarize call, and the content of every
\* topic record, has at most 10,000 words, also when the last pass took
\* the accumulated content far above the target.
C11_ContentWithinCap ==
  /\ pc = "summarize" => TotalWords(allContent) <= WordTarget
  /\ \A k \in 1..Len(topicResults) :
       TotalWords(topicResults[k].content) <= WordTarget

\* The content was cut: at least two whole fragments that were fetched are
\* not in it.
C11_Witness ==
  /\ pc = "summarize"
  /\ Len(allLinks) >= Len(allContent) + 2
  /\ TotalWords(allContent) >= WordTarget - 1

\* C12: when every search and extraction call returns, a topic's collection
\* loop is left for the summarize call, after at most 10 search calls for
\* the topic.
C12_LoopTerminatesWithinTries ==
  /\ [](searchCalls <= MaxTries)
  /\ (pc \in {"search", "fetch"}) ~> (pc = "summarize")

\* The tenth search call was made with the content below the target.
C12_Witness ==
  /\ pc = "summarize"
  /\ searchCalls = MaxTries
  /\ SplitLength(allContent) < WordTarget

IsBlank(t) == \A k \in 1..Len(t) : t[k] \in Whitespace

\* C13: for a text input that is empty or all whitespace no collaborator
\* is ever called, and when the request has been dealt with the client has
\* the stream, which holds exactly one terminal frame, the "No topics
\* found." signal, and is closed.
C13_BlankInputShortCircuits ==
  (fieldKind = "string" /\ IsBlank(syllabus)) =>
     /\ ~collaboratorCalled
     /\ pc \in {"rejected", "done"} =>
          /\ clientResponse = "stream"
          /\ closed
          /\ stream # <<>>
          /\ Last(stream) = NoTopicsFrame
          /\ \A k \in 1..(Len(stream) - 1) : ~IsTerminalFrame(stream[k])

\* C14: a request without a text field for the topics (no field, or a
\* file) never gets past the rejection: the response is the 400 error, no
\* stream is returned, no frame is pushed, no log record is written and no
\* collaborator is called.
C14_MalformedRejectedBeforeWork ==
  fieldKind # "string" =>
     /\ pc \in {"request", "rejected"}
     /\ pc = "rejected" => clientResponse = "error400"
     /\ clientResponse # "stream"
     /\ stream = <<>>
     /\ ~closed
     /\ logRecords = 0
     /\ ~collaboratorCalled

C14_Witness ==
  /\ fieldKind = "file"
  /\ pc = "rejected"
  /\ clientResponse = "error400"

\* C15: once a fault was raised in the work unit, the stream is closed, its
\* last frame is the ERROR frame, every frame before it is a status frame,
\* and no frame and no return value carries a topic record, however many
\* topics had been processed.
C15_FaultEndsInSingleError ==
  raisedBy # "none" =>
     /\ pc = "done"
     /\ closed
     /\ stream # <<>>
     /\ Last(stream) = ErrorFrame
     /\ \A k \in 1..(Len(stream) - 1) :
          IsStatusFrame(stream[k]) /\ ~IsTerminalFrame(stream[k])
     /\ \A k \in 1..Len(stream) : "{\"topic\":" \notin Range(stream[k])
     /\ workResult = <<>>

C15_Witness ==
  /\ raisedBy # "none"
  /\ Len(topics) >= 2
  /\ Len(topicResults) >= 1

\* C16: a topic whose collection run obtained no content is summarized
\* like any other: the summarize call is made with the empty content, and
\* its return appends the topic's record, with an empty sources list.  So
\* while topic i is at hand every earlier topic has its record, a result
\* frame holds one record per topic, and an error frame is only ever the
\* outcome of a raised call.
C16_NoContentStillYieldsRecord ==
  /\ pc \in {"search", "fetch", "summarize"} => Len(topicResults) = i - 1
  /\ (pc = "summarize" /\ allLinks = <<>>) => allContent = <<>> /\ searchCalls >= 1
  /\ \A k \in 1..Len(topicResults) :
       /\ topicResults[k].topic = topics[k]
       /\ topicResults[k].sources = <<>> <=> topicResults[k].content = <<>>
       /\ topicResults[k].summary # <<>>
  /\ SubmissionResultPushed => Len(topicResults) = Len(topics)
  /\ (stream # <<>> /\ IsErrorFrame(Last(stream))) => raisedBy \in {"search", "generate"}

\* The result frame was pushed for two topics, the first without content.
C16_Witness ==
  /\ SubmissionResultPushed
  /\ Len(topicResults) = 2
  /\ topicResults[1].sources = <<>>
  /\ topicResults[1].content = <<>>
  /\ topicResults[2].sources # <<>>

KeyAtoms ==
  {"{\"topic\":", ",\"translated\":", ",\"summary\":", ",\"sources\":", ",\"content\":"}

IsKeyAtom(a) == a \in KeyAtoms

\* The keys of a serialized SubmissionResult, in the order they are written.
KeysIn(payload) == SelectSeq(payload, IsKeyAtom)

\* topic, translated, summary, sources: once per element.
FourKeys(n) ==
  Concat([k \in 1..n |->
            <<"{\"topic\":", ",\"translated\":", ",\"summary\":", ",\"sources\":">>])

\* The atoms of a payload after the k-th occurrence of a key.
RECURSIVE AfterKey(_, _, _)
AfterKey(payload, key, k) ==
  IF payload = <<>> THEN <<>>
  ELSE IF Head(payload) = key
       THEN (IF k = 1 THEN Tail(payload) ELSE AfterKey(Tail(payload), key, k - 1))
       ELSE AfterKey(Tail(payload), key, k)

WireFormatOf(payload) ==
  /\ KeysIn(payload) = FourKeys(Len(topics))
  /\ \A k \in 1..Len(topicResults) :
       /\ startsWith(AfterKey(payload, ",\"sources\":", k),
                     JsonUrls(topicResults[k].sources) \o <<"}">>)
       /\ \A f \in 1..Len(topicResults[k].content) :
            ("words of " \o topicResults[k].content[f].url) \notin Range(payload)

\* C17: every element of a serialized SubmissionResult (in the result
\* frame, or in the envelope the work unit builds) has the keys topic,
\* translated, summary and sources and no other, the value of sources is
\* the topic's list of URLs, and no text of the accumulated content is in
\* the payload.
C17_WireFormatFourKeys ==
  /\ SubmissionResultPushed => WireFormatOf(dropMarker(Last(stream), SUMMARY))
  /\ workResult # <<>> => WireFormatOf(workResult[1].summary)

\* A result frame for two topics, content collected for both.
C17_Witness ==
  /\ SubmissionResultPushed
  /\ Len(topicResults) = 2
  /\ topicResults[1].content # <<>>
  /\ topicResults[2].content # <<>>
  /\ Len(topicResults[2].sources) = 2

\* C18: when the stream ended with the ERROR frame and the page has read
\* it in whole frames to its end, the page is in its error state and has
\* set no summary.
C18_ErrorFrameShownAsError ==
  (clientPhase # "reading" /\ cuts = 0 /\ stream # <<>> /\ IsErrorFrame(Last(stream))) =>
     /\ clientPhase = "error"
     /\ summary = <<>>

\* C19: when the page has set the payload of the result frame as its
\* summary, the tab of every topic with sources lists exactly the topic's
\* source links, in their order.
C19_TabListsAllSources ==
  (clientPhase = "summary" /\ SubmissionResultPushed
     /\ summary = dropMarker(Last(stream), SUMMARY)) =>
     LET parsed == JSONparse(summary)
     IN /\ Len(parsed) = Len(topicResults)
        /\ \A k \in 1..Len(parsed) :
             parsed[k].sources # <<>> =>
               renderedLinks(parsed[k]) =
                 [q \in 1..Len(parsed[k].sources) |-> <<parsed[k].sources[q]>>]

\* C20: within one collection run fetchWebContent is called at most once
\* for a URL, whatever the earlier call returned and however often the
\* search lists the URL.
C20_FetchedOncePerUrl ==
  \A u \in DOMAIN fetchCalls : fetchCalls[u] <= 1

\* C21: a step that ends a pass of the collection loop issues another
\* search call for the topic only if the pass added a source (and so
\* content): after a pass that added nothing no search call follows,
\* whatever the word count and the number of tries.
C21_StagnationEndsCollection ==
  [][(pc \in {"search", "fetch"} /\ pc' = "search") =>
       (Len(allLinks') > passStart /\ i' = i)]_vars

\* The loop was left after a second pass that added nothing, with the
\* content below the target and tries left.
C21_Witness ==
  /\ pc = "summarize"
  /\ searchCalls = 2
  /\ Len(allLinks) = passStart
  /\ allLinks # <<>>
  /\ SplitLength(allContent) < WordTarget
  /\ tries < MaxTries

\* C22: a search call for a topic is awaited only with fewer than 10,000
\* words collected, fewer than 10 tries made and, after the first pass,
\* content added by the pass before; and the loop is left for the
\* summarize call only when one of the three fails: with 10,000 words or
\* more, with 10 tries, or after a pass that added nothing.
C22_PassStartedExactlyWhen ==
  /\ pc = "search" =>
       /\ wordsCollected < WordTarget
       /\ tries < MaxTries
       /\ searchCalls >= 2 => newContentAdded
  /\ pc = "summarize" =>
       \/ wordsCollected >= WordTarget
       \/ tries >= MaxTries
       \/ Len(allLinks) = passStart

\* C23: when more words were collected than the cap, the content handed
\* on has exactly 10,000 words: the fragments in the order collected, the
\* last one cut.
C23_TruncatedToExactlyCap ==
  (pc = "summarize" /\ wordsCollected > WordTarget) =>
     /\ TotalWords(allContent) = WordTarget
     /\ \A k \in 1..Len(allContent) : allContent[k].url = allLinks[k]

\* C24: within one generation call the models are asked one at a time in
\* the order of the list; a model after the first is asked only when every
\* reply before it was empty after trimming, and a reply that is not empty
\* after trimming ends the call and is the value returned (trimmed by the
\* translate call, as it is by the summarize call); when every reply was
\* empty the call returns its fallback, the topic or the sentinel.
C24_ModelsTriedInOrder ==
  genTrace.call # "none" =>
    LET rs == genTrace.replies
        n == Len(rs)
        goesOn == pc = genTrace.call /\ m > 1
        returned == IF genTrace.call = "translate"
                    THEN Last(translatedTopics)
                    ELSE Last(topicResults).summary
    IN /\ n \in 1..NumModels
       /\ \A k \in 1..(n - 1) : Trim(rs[k]) = <<>>
       /\ goesOn => (m = n + 1 /\ Trim(rs[n]) = <<>>)
       /\ (~goesOn /\ Trim(rs[n]) # <<>>) =>
            returned = IF genTrace.call = "translate" THEN Trim(rs[n]) ELSE rs[n]
       /\ (~goesOn /\ Trim(rs[n]) = <<>>) =>
            /\ n = NumModels
            /\ returned = IF genTrace.call = "translate"
                          THEN topics[Len(translatedTopics)]
                          ELSE NoSummary

\* The second model was asked after an empty reply of the first, and its
\* reply is the summary of the record.
C24_Witness ==
  /\ genTrace.call = "summarize"
  /\ Len(genTrace.replies) = NumModels
  /\ Trim(genTrace.replies[1]) = <<>>
  /\ Trim(genTrace.replies[NumModels]) # <<>>
  /\ pc # "summarize"
  /\ Last(topicResults).summary = genTrace.replies[NumModels]

\* C25: the calls of a submission are made one after the other in the
\* order of the phases: while a search, extraction or summarize call of
\* topic i is awaited every topic's translate call has returned and
\* exactly the topics before i have their summaries; every search call is
\* made with the value the translate call returned for its topic; the
\* summarize call of a topic is awaited only after its search calls, with
\* no result list left to process.
C25_CallsSequentialInPhaseOrder ==
  /\ pc = "translate" =>
       /\ Len(translateLog) = i - 1
       /\ topicResults = <<>>
       /\ searchCalls = 0
       /\ fetchCalls = <<>>
  /\ pc \in {"search", "fetch", "summarize"} =>
       /\ Len(translateLog) = Len(topics)
       /\ i \in 1..Len(topics)
       /\ translateLog[i].arg = topics[i]
       /\ Len(topicResults) = i - 1
       /\ \A k \in 1..(i - 1) : topicResults[k].topic = topics[k]
  /\ pc = "search" => query = translateLog[i].ret
  /\ pc # "search" => query = <<>>
  /\ pc = "summarize" =>
       /\ searchCalls >= 1
       /\ urls = <<>>
       /\ j = 0

\* The first search call of the second topic is awaited, with a
\* translation that differs from the topic, after the first topic's
\* summary was recorded.
C25_Witness ==
  /\ pc = "search"
  /\ i = 2
  /\ searchCalls = 1
  /\ Len(topicResults) = 1
  /\ query = translatedTopics[2]
  /\ query # topics[2]

\* The status texts of a submission of the topics at hand that completes,
\* in the order claimed.
ExpectedStatuses ==
  LET n == Len(topics)
  IN <<SplittingStatus, TranslatingStatus>>
     \o [k \in 1..n |-> TranslatingTopicStatus(k, n)]
     \o <<ExtractedStatus>>
     \o [k \in 1..(2 * n) |->
           IF k % 2 = 1
           THEN ScrapingStatus((k + 1) \div 2, n, translatedTopics[(k + 1) \div 2])
           ELSE SummarizingStatus(k \div 2, n)]
     \o <<FinalStatus>>

\* C26: when a submission with at least one topic has completed, the
\* status frames of the stream are, in this order and with none missing:
\* splitting, translating, "Translating topic i of n" for i = 1..n, the
\* scraping phase, for each topic its scraping and then its summarizing
\* status, and the final document; the result frame, if one is pushed,
\* comes after all of them.
C26_StatusFramesInOrder ==
  (pc = "done" /\ raisedBy = "none" /\ topics # <<>>) =>
     LET frames == [k \in 1..Len(ExpectedStatuses) |-> StatusFrame(ExpectedStatuses[k])]
     IN /\ Len(stream) >= Len(frames)
        /\ SubSeq(stream, 1, Len(frames)) = frames
        /\ IF isStatusStream
           THEN /\ Len(stream) = Len(frames) + 1
                /\ IsResultFrame(Last(stream))
           ELSE Len(stream) = Len(frames)

\* A submission of two topics has completed and its result frame is pushed.
C26_Witness ==
  /\ pc = "done"
  /\ raisedBy = "none"
  /\ Len(topics) = 2
  /\ SubmissionResultPushed
  /\ Len(stream) = 11

\* C27: every status frame is exactly one line of the stream.  The lines
\* that precede the terminal frame are as many as the status frames and
\* each begins with the STATUS marker, whatever text the translate call
\* returned; so a page that read the stream in chunks that end at frame
\* ends shows the payload of the result frame and nothing of a status.
C27_StatusFramesAreSingleLines ==
  LET statusFrames == SelectSeq(stream, IsStatusFrame)
      ls == LinesOf(Concat(statusFrames), <<>>)
  IN /\ Len(ls) = Len(statusFrames) + 1
     /\ \A k \in 1..(Len(ls) - 1) : startsWith(ls[k], STATUS)
     /\ (clientPhase = "summary" /\ cuts = 0 /\ SubmissionResultPushed) =>
          summary = dropMarker(Last(stream), SUMMARY)

\* s is t, or t with elements appended
IsPrefix(s, t) == Len(s) <= Len(t) /\ SubSeq(t, 1, Len(s)) = s

\* C28: throughout a topic's collection run the source list holds exactly
\* the URLs whose extraction returned text that was appended to the
\* content, in the order in which that happened and once each: it has one
\* entry per fragment appended, the return of an extraction adds its URL
\* exactly when it adds words, and until the loop is left the content and
\* the list only grow.
C28_SourcesAreSuccessfulExtractions ==
  /\ [](pc \in {"search", "fetch"} =>
         /\ Len(allLinks) = Len(allContent)
         /\ \A k \in 1..Len(allLinks) :
              /\ allContent[k].url = allLinks[k]
              /\ allContent[k].words > 0
              /\ allLinks[k] \in DOMAIN fetchCalls
         /\ NoDuplicates(allLinks)
         /\ TotalWords(allContent) = wordsCollected)
  /\ [][(pc = "fetch" =>
           IF wordsCollected' > wordsCollected
           THEN allLinks' = Append(allLinks, urls[j])
           ELSE allLinks' = allLinks)
        /\ ((pc \in {"search", "fetch"} /\ pc' \in {"search", "fetch"}) =>
             (IsPrefix(allContent, allContent') /\ IsPrefix(allLinks, allLinks')))
        /\ (pc = "search" => allLinks' = allLinks)]_vars

\* The second URL gave text before the first one did: the list is in the
\* order of the extractions that succeeded, not of the search results.
C28_Witness ==
  /\ pc = "search"
  /\ urls = <<"u1", "u2">>
  /\ allLinks = <<"u2", "u1">>
  /\ Len(allContent) = 2
  /\ fetchCalls["u1"] = 2

\* C30: a search call that is not the first of the submission is issued
\* only after a pacing delay: when a second or later search call of a
\* topic, or the first search call of a topic after the first, is awaited,
\* the work unit has taken a delay step.
C30_DelayBetweenSearchCalls ==
  (pc = "search" /\ (searchCalls >= 2 \/ i >= 2)) => delays >= 1

====
